---- MODULE Spec2Model ----
(***************************************************************************)
(* Canvas / renderer lifecycle of src/core/rendering.js: createCanvas,     *)
(* resizeCanvas, noCanvas, createGraphics and blendMode, for the sketch    *)
(* instances of one page.  The document (display tree), the canvas         *)
(* elements and the module-level defaultId are shared by all sketches.     *)
(***************************************************************************)
EXTENDS Integers, Sequences, FiniteSets, TLC

\* ---------------------------------------------------------------- bounds
\* canvas elements ever created on the page (document.createElement calls)
MaxAlloc == 3

\* ------------------------------------------------------------- constants
Sketches == {"A", "B"}

P2D == "p2d"
WEBGL == "webgl"
\* the optional third argument of createCanvas / createGraphics
RendererArgs == {"undefined", P2D, WEBGL}

BLEND == "BLEND"
NORMAL == "NORMAL"
\* values handed to blendMode: the tokens of constants, the alias, and two others
ModeArgs ==
  {"BLEND", "DARKEST", "LIGHTEST", "DIFFERENCE", "MULTIPLY", "EXCLUSION",
   "SCREEN", "REPLACE", "OVERLAY", "HARD_LIGHT", "SOFT_LIGHT", "DODGE",
   "BURN", "ADD", NORMAL, "bogus", "SUBTRACT"}

DefaultStroke == "#000000"
StrokeArgs == {DefaultStroke, "#ff0000"}

\* the (w, h) pairs handed to createCanvas, resizeCanvas and createGraphics
Sizes == {<<1, 2>>, <<2, 1>>}

\* the one size handed to createGraphics and, where every mode is tried, to
\* the other calls too
OneSize == {<<1, 2>>}

\* the values handed to blendMode where the lifecycle is explored
FewModeArgs == {"MULTIPLY", NORMAL, "bogus"}

VARIABLES
  defaultId,                \* module variable, line 14
  surfaces,                 \* canvas elements created so far: handle -> [id, hidden]
  tree,                     \* canvas elements attached to the document, in document order
  renderers,                \* renderers constructed so far: handle -> record
  _renderer,                \* per sketch: this._renderer (0 = undefined)
  canvas,                   \* per sketch: this.canvas    (0 = undefined)
  _elements,                \* per sketch: this._elements
  _defaultGraphicsCreated,  \* per sketch
  _setupDone,               \* per sketch
  width,                    \* per sketch: this.width
  height,                   \* per sketch: this.height
  drawingContext,           \* per sketch: this.drawingContext (the backend context)
  lastCall                  \* the last call made and what it returned or threw

vars == <<defaultId, surfaces, tree, renderers, _renderer, canvas, _elements,
          _defaultGraphicsCreated, _setupDone, width, height, drawingContext,
          lastCall>>

\* ------------------------------------------------------------ the document
\* 'defaultCanvas' + i
defaultCanvas(i) == "defaultCanvas" \o ToString(i)

Remove(seq, x) == SelectSeq(seq, LAMBDA e : e # x)

InTree(c) == \E k \in 1..Len(tree) : tree[k] = c

\* document.getElementById: the first attached element with that id, 0 for null
getElementById(id) ==
  IF \E k \in 1..Len(tree) : surfaces[tree[k]].id = id
  THEN tree[CHOOSE k \in 1..Len(tree) :
              /\ surfaces[tree[k]].id = id
              /\ \A j \in 1..(k - 1) : surfaces[tree[j]].id # id]
  ELSE 0

\* appendChild that leaves a canvas created by an earlier call where it is
appendChildIfNew(t, c) == IF c \in DOMAIN surfaces THEN t ELSE Append(t, c)

\* node.appendChild(c): c becomes the last child; an attached c is moved
appendChild(t, c) == Append(Remove(t, c), c)

\* the while loop of lines 75-78, started at i
RECURSIVE FirstUnusedIndex(_)
FirstUnusedIndex(i) ==
  IF getElementById(defaultCanvas(i)) # 0 THEN FirstUnusedIndex(i + 1) ELSE i

\* ----------------------------------------------------- the backend context
\* A freshly created or freshly resized backend context: every property at
\* its default, the read-only drawingBufferWidth reporting the backing width.
DefaultContext(c, w) ==
  [globalCompositeOperation |-> BLEND,
   strokeStyle |-> DefaultStroke,
   drawingBufferWidth |-> w,
   canvas |-> c,
   save |-> "function"]

\* typeof this.drawingContext[key]
TypeOf(key) ==
  CASE key = "canvas" -> "object"
    [] key = "save" -> "function"
    [] key = "drawingBufferWidth" -> "number"
    [] OTHER -> "string"

\* properties the backend refuses to assign
ReadOnly(key) == key \in {"drawingBufferWidth", "canvas"}

\* SaveProps with the typeof test inverted
SavePropsInverted(ctx) ==
  [key \in {k \in DOMAIN ctx : TypeOf(k) = "object" \/ TypeOf(k) = "function"}
     |-> ctx[key]]

\* lines 150-156: the scalar properties of the context
SaveProps(ctx) ==
  [key \in {k \in DOMAIN ctx : TypeOf(k) # "object" /\ TypeOf(k) # "function"}
     |-> ctx[key]]

\* lines 161-167: the saved properties whose assignment throws and is caught
Skipped(props) == {key \in DOMAIN props : ReadOnly(key)}

\* ResetProps with the try around the whole loop: nothing is assigned once a
\* read-only property is among the saved ones
ResetPropsAbort(ctx, props) ==
  [key \in DOMAIN ctx |->
     IF key \in DOMAIN props /\ Skipped(props) = {} THEN props[key] ELSE ctx[key]]

\* ResetProps with the loop of lines 161-167 left out
ResetPropsSkipped(ctx, props) == ctx

\* lines 161-167: assign each saved property back, ignoring read-only errors
ResetProps(ctx, props) ==
  [key \in DOMAIN ctx |->
     IF key \in DOMAIN props /\ ~ReadOnly(key) THEN props[key] ELSE ctx[key]]

\* Renderer.resize(w, h) on the backend context: the context is reset
ResizeContext(ctx, w) == DefaultContext(ctx.canvas, w)

\* Renderer.resize(w, h) on the renderer itself
ResizeRenderer(rec, w, h) == [rec EXCEPT !.width = w, !.height = h]

\* Renderer._applyDefaults()
ApplyDefaults(ctx) == [ctx EXCEPT !["strokeStyle"] = DefaultStroke]

\* new p5.Renderer2D / p5.RendererGL / the renderer of a p5.Graphics
NewRenderer(kind, c, s, isMainCanvas) ==
  [kind |-> kind, canvas |-> c, pInst |-> s, isMainCanvas |-> isMainCanvas,
   width |-> 0, height |-> 0]

\* ------------------------------------------------------------------- calls
\* what a redraw pass finds: the dimensions of the sketch and its context
NotDrawn == [width |-> 0, height |-> 0, ctx |-> DefaultContext(0, 0)]

NoCall ==
  [op |-> "none", s |-> "", w |-> 0, h |-> 0, r |-> "", mode |-> "",
   noRedraw |-> FALSE, ret |-> 0, err |-> "", warned |-> FALSE, redraws |-> 0,
   drawn |-> NotDrawn, skipped |-> {}, repeat |-> FALSE]

\* the record of a call: repeat tells that the call before it was the same
\* operation on the same sketch with the same renderer argument
Call(op, s, r) ==
  [NoCall EXCEPT !.op = op, !.s = s, !.r = r,
                 !.repeat = (lastCall.op = op /\ lastCall.s = s /\ lastCall.r = r)]

Init ==
  /\ defaultId = defaultCanvas(0)
  /\ surfaces = <<>>
  /\ tree = <<>>
  /\ renderers = <<>>
  /\ _renderer = [s \in Sketches |-> 0]
  /\ canvas = [s \in Sketches |-> 0]
  /\ _elements = [s \in Sketches |-> <<>>]
  /\ _defaultGraphicsCreated = [s \in Sketches |-> FALSE]
  /\ _setupDone = [s \in Sketches |-> FALSE]
  /\ width = [s \in Sketches |-> 0]
  /\ height = [s \in Sketches |-> 0]
  /\ drawingContext = [s \in Sketches |-> DefaultContext(0, 0)]
  /\ lastCall = NoCall

\* line 56: var r = renderer || constants.P2D
Backend(renderer) == IF renderer = "undefined" THEN P2D ELSE renderer

\* Fresh without the test of _defaultGraphicsCreated
FreshAlways(s, r) == r = WEBGL \/ r = P2D

\* lines 59 and 73: the branches of createCanvas that create a canvas element
Fresh(s, r) == r = WEBGL \/ ~_defaultGraphicsCreated[s]

\* ResizeAndApplyDefaults with the arguments of resize exchanged
ResizeSwapped(rec, w, h) == ResizeRenderer(rec, h, w)

\* lines 114-115: this._renderer.resize(w, h); this._renderer._applyDefaults()
ResizeAndApplyDefaults(rec, w, h) == ResizeRenderer(rec, w, h)

\* p5.prototype.createCanvas, lines 53-117
createCanvas(s, w, h, renderer) ==
  LET r == Backend(renderer)
      fresh == Fresh(s, r)
      \* line 60
      found == IF r = WEBGL THEN getElementById(defaultId) ELSE 0
      n == Len(surfaces) + 1
      newId == IF r = WEBGL THEN defaultId ELSE defaultCanvas(FirstUnusedIndex(0))
      c == IF fresh THEN n ELSE canvas[s]
      \* lines 61-68
      tree1 == IF found # 0 THEN Remove(tree, found) ELSE tree
      elts1 == IF found # 0 THEN Remove(_elements[s], _renderer[s]) ELSE _elements[s]
      \* lines 69-71 and 74-81
      surfaces1 == IF fresh
                   THEN Append(surfaces, [id |-> newId, hidden |-> FALSE])
                   ELSE surfaces
      \* lines 103-113
      rn == IF fresh THEN n ELSE _renderer[s]
      rec == IF fresh THEN NewRenderer(r, c, s, TRUE) ELSE renderers[rn]
      ctx1 == IF fresh THEN DefaultContext(c, 0) ELSE drawingContext[s]
      resized == ResizeAndApplyDefaults(rec, w, h)
  IN  /\ fresh => Len(surfaces) < MaxAlloc
      /\ defaultId' = IF r # WEBGL /\ fresh THEN newId ELSE defaultId
      \* lines 89-92
      /\ surfaces' = IF ~_setupDone[s]
                     THEN [surfaces1 EXCEPT ![c].hidden = TRUE]
                     ELSE surfaces1
      \* lines 94-99
      /\ tree' = appendChild(tree1, c)
      /\ renderers' = IF fresh
                      THEN Append(renderers, resized)
                      ELSE [renderers EXCEPT ![rn] = resized]
      /\ _renderer' = [_renderer EXCEPT ![s] = rn]
      /\ canvas' = [canvas EXCEPT ![s] = c]
      /\ _elements' = [_elements EXCEPT ![s] = IF fresh THEN Append(elts1, rn) ELSE elts1]
      /\ _defaultGraphicsCreated' =
           [_defaultGraphicsCreated EXCEPT ![s] = IF r = WEBGL THEN @ ELSE TRUE]
      /\ width' = [width EXCEPT ![s] = resized.width]
      /\ height' = [height EXCEPT ![s] = resized.height]
      /\ drawingContext' =
           [drawingContext EXCEPT ![s] = ApplyDefaults(ResizeContext(ctx1, resized.width))]
      /\ lastCall' = [Call("createCanvas", s, renderer) EXCEPT
                        !.w = w, !.h = h, !.ret = rn]
      /\ UNCHANGED _setupDone

\* HasRenderer without the test
HasRendererAlways(s) == TRUE

\* line 148: if (this._renderer)
HasRenderer(s) == _renderer[s] # 0

\* Redraws with the test of noRedraw inverted
RedrawsInverted(noRedraw) == IF noRedraw THEN 1 ELSE 0

\* lines 168-170: the calls of this.redraw() that resizeCanvas makes
Redraws(noRedraw) == IF noRedraw THEN 0 ELSE 1

\* DrawnContext with redraw called before the properties are reset
DrawnContextEarly(resized, restored) == resized

\* lines 157-170: the context that redraw finds is the one left by the loop
\* of lines 161-167, which follows the resize of line 157
DrawnContext(resized, restored) == restored

\* p5.prototype.resizeCanvas, lines 146-172
resizeCanvas(s, w, h, noRedraw) ==
  LET call == [Call("resizeCanvas", s, "") EXCEPT !.w = w, !.h = h, !.noRedraw = noRedraw]
  IN
  IF HasRenderer(s)
  THEN LET rn == _renderer[s]
           props == SaveProps(drawingContext[s])
           resized == ResizeContext(drawingContext[s], w)
           restored == ResetProps(resized, props)
       IN  /\ renderers' = [renderers EXCEPT ![rn] = ResizeRenderer(@, w, h)]
           /\ width' = [width EXCEPT ![s] = w]
           /\ height' = [height EXCEPT ![s] = h]
           /\ drawingContext' = [drawingContext EXCEPT ![s] = restored]
           /\ lastCall' =
                [call EXCEPT
                   !.redraws = Redraws(noRedraw),
                   !.skipped = Skipped(props),
                   !.drawn = IF Redraws(noRedraw) > 0
                             THEN [width |-> w, height |-> h,
                                   ctx |-> DrawnContext(resized, restored)]
                             ELSE NotDrawn]
           /\ UNCHANGED <<defaultId, surfaces, tree, _renderer, canvas, _elements,
                          _defaultGraphicsCreated, _setupDone>>
  ELSE /\ lastCall' = call
       /\ UNCHANGED <<defaultId, surfaces, tree, renderers, _renderer, canvas,
                      _elements, _defaultGraphicsCreated, _setupDone, width,
                      height, drawingContext>>

\* p5.prototype.noCanvas, lines 191-195.  The parentNode of a canvas that is
\* not attached is null, and null.removeChild throws a TypeError.
noCanvas(s) ==
  /\ tree' = IF canvas[s] # 0 /\ InTree(canvas[s]) THEN Remove(tree, canvas[s]) ELSE tree
  /\ lastCall' = [Call("noCanvas", s, "") EXCEPT
                    !.err = IF canvas[s] # 0 /\ ~InTree(canvas[s])
                            THEN "TypeError" ELSE ""]
  /\ UNCHANGED <<defaultId, surfaces, renderers, _renderer, canvas, _elements,
                 _defaultGraphicsCreated, _setupDone, width, height,
                 drawingContext>>

\* createGraphics with the new renderer made the main one of the sketch
createGraphicsAsMain(s, w, h, renderer) ==
  LET n == Len(surfaces) + 1
  IN  /\ Len(surfaces) < MaxAlloc
      /\ surfaces' = Append(surfaces, [id |-> "", hidden |-> TRUE])
      /\ renderers' =
           Append(renderers,
                  ResizeRenderer(NewRenderer(Backend(renderer), n, s, TRUE), w, h))
      /\ _elements' = [_elements EXCEPT ![s] = Append(@, n)]
      /\ _renderer' = [_renderer EXCEPT ![s] = n]
      /\ lastCall' = [Call("createGraphics", s, renderer) EXCEPT
                        !.w = w, !.h = h, !.ret = n]
      /\ UNCHANGED <<defaultId, tree, canvas, _defaultGraphicsCreated,
                     _setupDone, width, height, drawingContext>>

\* p5.prototype.createGraphics, lines 231-234: a new offscreen canvas with no
\* id and a new renderer that is not the main one, entered in this._elements
createGraphics(s, w, h, renderer) ==
  LET n == Len(surfaces) + 1
  IN  /\ Len(surfaces) < MaxAlloc
      /\ surfaces' = Append(surfaces, [id |-> "", hidden |-> TRUE])
      /\ renderers' =
           Append(renderers,
                  ResizeRenderer(NewRenderer(Backend(renderer), n, s, FALSE), w, h))
      /\ _elements' = [_elements EXCEPT ![s] = Append(@, n)]
      /\ lastCall' = [Call("createGraphics", s, renderer) EXCEPT
                        !.w = w, !.h = h, !.ret = n]
      /\ UNCHANGED <<defaultId, tree, _renderer, canvas, _defaultGraphicsCreated,
                     _setupDone, width, height, drawingContext>>

\* Renderer.blendMode(mode) of the active renderer: the mode becomes the
\* compositing mode of its backend context
RendererBlendMode(ctx, mode) == [ctx EXCEPT !["globalCompositeOperation"] = mode]

\* Recognized with the last disjunct (ADD) left out
RecognizedButAdd(mode) ==
  mode \in {"BLEND", "DARKEST", "LIGHTEST", "DIFFERENCE", "MULTIPLY", "EXCLUSION",
            "SCREEN", "REPLACE", "OVERLAY", "HARD_LIGHT", "SOFT_LIGHT", "DODGE",
            "BURN"}

\* Recognized letting every value but the alias through to the renderer
RecognizedAny(mode) == mode # NORMAL

\* Deprecated taking no value for the alias
DeprecatedNever(mode) == FALSE

\* line 320: the test of the second branch of blendMode
Deprecated(mode) == mode = NORMAL

\* lines 303-318: the test of the first branch of blendMode
Recognized(mode) ==
  \/ mode = "BLEND"
  \/ mode = "DARKEST"
  \/ mode = "LIGHTEST"
  \/ mode = "DIFFERENCE"
  \/ mode = "MULTIPLY"
  \/ mode = "EXCLUSION"
  \/ mode = "SCREEN"
  \/ mode = "REPLACE"
  \/ mode = "OVERLAY"
  \/ mode = "HARD_LIGHT"
  \/ mode = "SOFT_LIGHT"
  \/ mode = "DODGE"
  \/ mode = "BURN"
  \/ mode = "ADD"

\* p5.prototype.blendMode, lines 301-329.  With no renderer,
\* this._renderer.blendMode throws a TypeError (after the warning, for NORMAL).
blendMode(s, mode) ==
  LET call == [Call("blendMode", s, "") EXCEPT !.mode = mode]
  IN  /\ IF Recognized(mode)
         THEN IF _renderer[s] # 0
              THEN /\ drawingContext' =
                        [drawingContext EXCEPT ![s] = RendererBlendMode(@, mode)]
                   /\ lastCall' = call
              ELSE /\ lastCall' = [call EXCEPT !.err = "TypeError"]
                   /\ UNCHANGED drawingContext
         ELSE IF Deprecated(mode)
              THEN IF _renderer[s] # 0
                   THEN /\ drawingContext' =
                             [drawingContext EXCEPT ![s] = RendererBlendMode(@, BLEND)]
                        /\ lastCall' = [call EXCEPT !.warned = TRUE]
                   ELSE /\ lastCall' = [call EXCEPT !.warned = TRUE, !.err = "TypeError"]
                        /\ UNCHANGED drawingContext
              ELSE /\ lastCall' = [call EXCEPT !.err = "Mode " \o mode \o " not recognized."]
                   /\ UNCHANGED drawingContext
      /\ UNCHANGED <<defaultId, surfaces, tree, renderers, _renderer, canvas,
                     _elements, _defaultGraphicsCreated, _setupDone, width, height>>

\* stroke(color) of the drawing API on a sketch that has a renderer: sets a
\* scalar property of the backend context
stroke(s, color) ==
  /\ _renderer[s] # 0
  /\ drawingContext' = [drawingContext EXCEPT ![s]["strokeStyle"] = color]
  /\ lastCall' = Call("stroke", s, "")
  /\ UNCHANGED <<defaultId, surfaces, tree, renderers, _renderer, canvas,
                 _elements, _defaultGraphicsCreated, _setupDone, width, height>>

\* the end of the setup phase: the attached canvases tagged hidden are shown
setupDone(s) ==
  /\ ~_setupDone[s]
  /\ _setupDone' = [_setupDone EXCEPT ![s] = TRUE]
  /\ surfaces' = [k \in DOMAIN surfaces |->
                    IF InTree(k) THEN [surfaces[k] EXCEPT !.hidden = FALSE]
                    ELSE surfaces[k]]
  /\ lastCall' = Call("setupDone", s, "")
  /\ UNCHANGED <<defaultId, tree, renderers, _renderer, canvas, _elements,
                 _defaultGraphicsCreated, width, height, drawingContext>>

\* the calls one sketch can make, the sizes drawn from sizes and the argument
\* of blendMode from modes
Calls(s, sizes, modes) ==
  \/ \E wh \in sizes, r \in RendererArgs : createCanvas(s, wh[1], wh[2], r)
  \/ \E wh \in sizes, noRedraw \in BOOLEAN : resizeCanvas(s, wh[1], wh[2], noRedraw)
  \/ noCanvas(s)
  \/ \E wh \in OneSize, r \in RendererArgs : createGraphics(s, wh[1], wh[2], r)
  \/ \E mode \in modes : blendMode(s, mode)
  \/ \E color \in StrokeArgs : stroke(s, color)

\* one sketch on the page during its setup phase, a few modes
Next == Calls("A", Sizes, FewModeArgs)

Spec == Init /\ [][Next]_vars

\* one sketch on the page during and after its setup phase, every mode
\* argument, one size, no offscreen buffers
NextModes ==
  \/ \E wh \in OneSize, r \in RendererArgs : createCanvas("A", wh[1], wh[2], r)
  \/ \E wh \in OneSize, noRedraw \in BOOLEAN : resizeCanvas("A", wh[1], wh[2], noRedraw)
  \/ noCanvas("A")
  \/ \E mode \in ModeArgs : blendMode("A", mode)
  \/ setupDone("A")

SpecModes == Init /\ [][NextModes]_vars

\* two sketches on one page, each creating, replacing and removing its canvas
NextTwo ==
  \E s \in Sketches :
    \/ \E wh \in Sizes, r \in RendererArgs : createCanvas(s, wh[1], wh[2], r)
    \/ noCanvas(s)

SpecTwo == Init /\ [][NextTwo]_vars

\* ================================================================= claims
\* the state of the page and of the sketches, without the record of the call
state == <<defaultId, surfaces, tree, renderers, _renderer, canvas, _elements,
           _defaultGraphicsCreated, _setupDone, width, height, drawingContext>>

InSeq(seq, x) == \E k \in DOMAIN seq : seq[k] = x

\* the entries of the registry of s that hold a renderer flagged as the default
DefaultEntries(s) ==
  {k \in DOMAIN _elements[s] : renderers[_elements[s][k]].isMainCanvas}

\* the compositing mode of the active renderer of s
Mode(s) == drawingContext[s].globalCompositeOperation

\* C1: after any sequence of createCanvas, resizeCanvas, noCanvas and
\* createGraphics calls on one sketch, its registry holds at most one renderer
\* flagged as the default renderer.
C1_AtMostOneDefault ==
  \A s \in Sketches : Cardinality(DefaultEntries(s)) <= 1

\* C2: when a Rasterized2D default renderer exists and createCanvas is called
\* with WEBGL, the old renderer leaves the registry, the registry size after
\* the call equals the size before it, and the old surface is no longer
\* attached to the display tree.
C2_WebglReplacesDefault ==
  [][\A s \in Sketches :
       (/\ lastCall'.op = "createCanvas" /\ lastCall'.s = s /\ lastCall'.r = WEBGL
        /\ _renderer[s] # 0
        /\ renderers[_renderer[s]].kind = P2D
        /\ renderers[_renderer[s]].isMainCanvas)
       => /\ Len(_elements'[s]) = Len(_elements[s])
          /\ ~InSeq(_elements'[s], _renderer[s])
          /\ ~InSeq(tree', renderers[_renderer[s]].canvas)]_vars

\* C3: a createCanvas call with the Rasterized2D backend that directly follows
\* another one on the same sketch reuses the surface and its id: no surface is
\* allocated, no default id is reserved, no renderer is added to the registry.
C3_SecondP2DReuses ==
  [][\A s \in Sketches :
       (/\ lastCall.op = "createCanvas" /\ lastCall.s = s /\ lastCall.r # WEBGL
        /\ lastCall'.op = "createCanvas" /\ lastCall'.s = s /\ lastCall'.r # WEBGL)
       => /\ Len(surfaces') = Len(surfaces)
          /\ canvas'[s] = canvas[s]
          /\ surfaces'[canvas'[s]].id = surfaces[canvas[s]].id
          /\ defaultId' = defaultId
          /\ Len(renderers') = Len(renderers)
          /\ _renderer'[s] = _renderer[s]
          /\ lastCall'.ret = lastCall.ret
          /\ _elements'[s] = _elements[s]]_vars

\* C3 witness: a Rasterized2D createCanvas call that directly followed another
\* one, with a different size, has returned.
C3_Witness ==
  /\ lastCall.op = "createCanvas" /\ lastCall.r = P2D /\ lastCall.repeat
  /\ lastCall.w = 2
  /\ Len(surfaces) = 1
  /\ InTree(canvas[lastCall.s])

\* C4: the renderer returned by createCanvas and left active has the variant
\* that was requested, and a change of backend between successive createCanvas
\* calls constructs a new renderer and leaves the variant of the old one alone.
C4_RequestedVariant ==
  [][lastCall'.op = "createCanvas" =>
       LET s == lastCall'.s
           rn == lastCall'.ret
           requested == IF lastCall'.r = WEBGL THEN WEBGL ELSE P2D
       IN  /\ _renderer'[s] = rn
           /\ renderers'[rn].kind = requested
           /\ (_renderer[s] # 0 /\ renderers[_renderer[s]].kind # requested)
                => /\ rn # _renderer[s]
                   /\ Len(renderers') = Len(renderers) + 1
                   /\ renderers'[_renderer[s]].kind = renderers[_renderer[s]].kind]_vars

\* C5: noCanvas called twice in a row is a no-op the second time: the second
\* call raises no error and changes no state.
C5_SecondNoCanvasNoOp ==
  [][(lastCall.op = "noCanvas" /\ lastCall'.op = "noCanvas" /\ lastCall'.s = lastCall.s)
       => (lastCall'.err = "" /\ UNCHANGED state)]_vars

\* C6: the renderer returned by createCanvas(w, h), with either backend,
\* reports width = w and height = h.
C6_ReturnedDimensions ==
  lastCall.op = "createCanvas" =>
    /\ renderers[lastCall.ret].width = lastCall.w
    /\ renderers[lastCall.ret].height = lastCall.h

\* C6 witness: a createCanvas(2, 1) call that directly followed another
\* Rasterized2D createCanvas call has returned the renderer it reused.
C6_Witness ==
  /\ lastCall.op = "createCanvas" /\ lastCall.r = P2D /\ lastCall.repeat
  /\ lastCall.w = 2 /\ lastCall.h = 1
  /\ lastCall.ret = 1

\* C7: after resizeCanvas(w, h) on a sketch that has a renderer, the renderer
\* and the sketch have the dimensions (w, h), and every scalar property of the
\* backend context that is not read-only has the value it had before the call.
C7_ResizeKeepsScalars ==
  [][\A s \in Sketches :
       (lastCall'.op = "resizeCanvas" /\ lastCall'.s = s /\ _renderer[s] # 0)
       => /\ renderers'[_renderer'[s]].width = lastCall'.w
          /\ renderers'[_renderer'[s]].height = lastCall'.h
          /\ width'[s] = lastCall'.w
          /\ height'[s] = lastCall'.h
          /\ \A key \in DOMAIN drawingContext[s] :
               (TypeOf(key) \notin {"object", "function"}
                /\ key \notin {"drawingBufferWidth", "canvas"})
               => drawingContext'[s][key] = drawingContext[s][key]]_vars

\* C7 witness: resizeCanvas has returned on a sketch whose context holds a
\* compositing mode and a stroke colour that are not the defaults a resize
\* resets them to, and whose read-only property follows the new width.
C7_Witness ==
  \E s \in Sketches :
    /\ lastCall.op = "resizeCanvas" /\ lastCall.s = s /\ _renderer[s] # 0
    /\ lastCall.w = 2
    /\ drawingContext[s].globalCompositeOperation = "MULTIPLY"
    /\ drawingContext[s].strokeStyle = "#ff0000"
    /\ drawingContext[s].drawingBufferWidth = 2

\* C8: a compositing mode set by blendMode persists as the mode of the active
\* renderer across every later operation except another blendMode call or the
\* destruction (replacement) of the renderer.
C8_ModePersists ==
  [][\A s \in Sketches :
       (/\ _renderer[s] # 0
        /\ _renderer'[s] = _renderer[s]
        /\ lastCall'.op # "blendMode")
       => Mode(s)' = Mode(s)]_vars

\* C8, amended: the mode persists across every later operation except another
\* blendMode call or a createCanvas call; after blendMode(X) followed by
\* resizeCanvas(w, h) the mode is still X, for both backends.
C8_ModePersistsUntilCreateCanvas ==
  [][\A s \in Sketches :
       (/\ _renderer[s] # 0
        /\ lastCall'.op \notin {"blendMode", "createCanvas"})
       => Mode(s)' = Mode(s)]_vars

\* C8 witness: resizeCanvas to another width has returned on a sketch whose
\* Accelerated3D renderer holds a mode set by blendMode.
C8_Witness ==
  \E s \in Sketches :
    /\ lastCall.op = "resizeCanvas" /\ lastCall.s = s
    /\ _renderer[s] # 0 /\ renderers[_renderer[s]].kind = WEBGL
    /\ drawingContext[s].drawingBufferWidth = 2
    /\ Mode(s) = "MULTIPLY"

\* C9: for each of the 14 valid tokens X, blendMode(X) on a sketch with an
\* active renderer succeeds, and the mode of the active renderer is then X.
C9_ValidModeBecomesActive ==
  (/\ lastCall.op = "blendMode"
   /\ lastCall.mode \in {"BLEND", "DARKEST", "LIGHTEST", "DIFFERENCE", "MULTIPLY",
                         "EXCLUSION", "SCREEN", "REPLACE", "OVERLAY", "HARD_LIGHT",
                         "SOFT_LIGHT", "DODGE", "BURN", "ADD"}
   /\ _renderer[lastCall.s] # 0)
  => /\ lastCall.err = ""
     /\ ~lastCall.warned
     /\ Mode(lastCall.s) = lastCall.mode

\* C9 witness: blendMode(ADD) has returned on a sketch whose active renderer
\* is an Accelerated3D one.
C9_Witness ==
  /\ lastCall.op = "blendMode" /\ lastCall.mode = "ADD" /\ lastCall.err = ""
  /\ _renderer[lastCall.s] # 0
  /\ renderers[_renderer[lastCall.s]].kind = WEBGL

\* C10: blendMode with a value that is neither one of the 14 tokens nor NORMAL
\* fails with an error that names the value, and changes no state.
C10_UnknownModeRejected ==
  [][(/\ lastCall'.op = "blendMode"
      /\ lastCall'.mode \notin
           {"BLEND", "DARKEST", "LIGHTEST", "DIFFERENCE", "MULTIPLY", "EXCLUSION",
            "SCREEN", "REPLACE", "OVERLAY", "HARD_LIGHT", "SOFT_LIGHT", "DODGE",
            "BURN", "ADD", "NORMAL"})
     => /\ lastCall'.err = "Mode " \o lastCall'.mode \o " not recognized."
        /\ ~lastCall'.warned
        /\ UNCHANGED state]_vars

\* C10 witness: blendMode('bogus') has failed on a sketch whose renderer holds
\* a mode set earlier.
C10_Witness ==
  /\ lastCall.op = "blendMode" /\ lastCall.mode = "bogus"
  /\ lastCall.err = "Mode bogus not recognized."
  /\ _renderer[lastCall.s] # 0
  /\ Mode(lastCall.s) = "SCREEN"

\* C11: blendMode(NORMAL) on a sketch with an active renderer succeeds, emits
\* a deprecation warning, and leaves the mode of the active renderer at BLEND.
C11_NormalIsBlend ==
  (/\ lastCall.op = "blendMode" /\ lastCall.mode = "NORMAL"
   /\ _renderer[lastCall.s] # 0)
  => /\ lastCall.err = ""
     /\ lastCall.warned
     /\ Mode(lastCall.s) = "BLEND"

\* C11 witness: blendMode(NORMAL) has returned with its warning on a sketch
\* whose active renderer is a Rasterized2D one shown after setup.
C11_Witness ==
  /\ lastCall.op = "blendMode" /\ lastCall.mode = "NORMAL" /\ lastCall.warned
  /\ _renderer[lastCall.s] # 0
  /\ renderers[_renderer[lastCall.s]].kind = P2D
  /\ _setupDone[lastCall.s]

\* C12: resizeCanvas on a sketch with no renderer returns silently: it raises
\* no error, changes no dimensions and no other state, and triggers no redraw.
C12_NoRendererNoOp ==
  [][\A s \in Sketches :
       (lastCall'.op = "resizeCanvas" /\ lastCall'.s = s /\ _renderer[s] = 0)
       => /\ lastCall'.err = ""
          /\ lastCall'.redraws = 0
          /\ UNCHANGED state]_vars

\* C12 witness: resizeCanvas(2, 1) with redraw not suppressed has returned on
\* a sketch that has no renderer.
C12_Witness ==
  /\ lastCall.op = "resizeCanvas" /\ ~lastCall.noRedraw
  /\ lastCall.w = 2 /\ lastCall.h = 1
  /\ _renderer[lastCall.s] = 0
  /\ width[lastCall.s] = 0

\* C13: createGraphics returns a new renderer that is not the default one and
\* is distinct from the renderer of the default canvas; it leaves unchanged
\* the active renderer of the sketch, the dimensions of the default renderer,
\* the attachment of its surface and its entry in the registry.
C13_GraphicsIsSeparate ==
  [][\A s \in Sketches :
       (lastCall'.op = "createGraphics" /\ lastCall'.s = s)
       => /\ lastCall'.ret \notin DOMAIN renderers
          /\ lastCall'.ret \in DOMAIN renderers'
          /\ ~renderers'[lastCall'.ret].isMainCanvas
          /\ lastCall'.ret # _renderer'[s]
          /\ renderers'[lastCall'.ret].canvas \notin DOMAIN surfaces
          /\ _renderer'[s] = _renderer[s]
          /\ canvas'[s] = canvas[s]
          /\ width'[s] = width[s] /\ height'[s] = height[s]
          /\ \A k \in DOMAIN renderers : renderers'[k] = renderers[k]
          /\ \A k \in DOMAIN surfaces : surfaces'[k] = surfaces[k]
          /\ tree' = tree
          /\ SubSeq(_elements'[s], 1, Len(_elements[s])) = _elements[s]]_vars

\* C13 witness: createGraphics has returned on a sketch whose default canvas
\* is attached and has an Accelerated3D renderer of another size.
C13_Witness ==
  \E s \in Sketches :
    /\ lastCall.op = "createGraphics" /\ lastCall.s = s
    /\ _renderer[s] # 0 /\ lastCall.ret # _renderer[s]
    /\ renderers[_renderer[s]].kind = WEBGL
    /\ renderers[_renderer[s]].width = 2
    /\ InTree(canvas[s])
    /\ InSeq(_elements[s], _renderer[s])

\* the default surfaces of s that are attached to the display tree
AttachedDefaults(s) ==
  {k \in DOMAIN renderers :
     /\ renderers[k].isMainCanvas /\ renderers[k].pInst = s
     /\ InTree(renderers[k].canvas)}

\* C14: in every reachable state at most one default surface of a sketch is
\* attached to the display tree.
C14_OneDefaultSurfaceAttached ==
  \A s \in Sketches : Cardinality(AttachedDefaults(s)) <= 1

\* C15: no operation detaches a default surface from the display tree while
\* leaving its renderer in the registry, and no operation removes a default
\* renderer from the registry while its surface stays attached.
C15_RegistryAndTreeTogether ==
  [][\A s \in Sketches : \A k \in DOMAIN renderers :
       (renderers[k].isMainCanvas /\ renderers[k].pInst = s)
       => /\ (InTree(renderers[k].canvas) /\ ~InTree(renderers[k].canvas)')
               => ~(InSeq(_elements[s], k) /\ InSeq(_elements'[s], k))
          /\ (InSeq(_elements[s], k) /\ ~InSeq(_elements'[s], k))
               => ~(InTree(renderers[k].canvas) /\ InTree(renderers[k].canvas)')]_vars

\* the attached surfaces other than c that hold the id of c
SameIdAttached(c) ==
  {k \in DOMAIN surfaces : k # c /\ InTree(k) /\ surfaces[k].id = surfaces[c].id}

\* C16: the id createCanvas assigns to a fresh surface is held by no other
\* attached surface, and no two attached surfaces ever share a default id.
C16_DefaultIdsUnique ==
  \A c \in DOMAIN surfaces :
    (InTree(c) /\ surfaces[c].id # "") => SameIdAttached(c) = {}

\* C19: a createCanvas or noCanvas call of one sketch never detaches the
\* default surface of another sketch and never changes the registry or the
\* active renderer of another sketch.
C19_SketchesIndependent ==
  [][\A s \in Sketches : \A o \in Sketches \ {s} :
       lastCall'.s = s
       => /\ _elements'[o] = _elements[o]
          /\ _renderer'[o] = _renderer[o]
          /\ (canvas[o] # 0 /\ InTree(canvas[o])) => InTree(canvas[o])']_vars

\* the entries of the registry of s that hold its active renderer
ActiveEntries(s) == {k \in DOMAIN _elements[s] : _elements[s][k] = _renderer[s]}

\* C20: after every createCanvas call the active renderer of the sketch is in
\* its registry exactly once and the surface it owns is attached.
C20_ActiveRegisteredAndAttached ==
  lastCall.op = "createCanvas" =>
    /\ _renderer[lastCall.s] # 0
    /\ Cardinality(ActiveEntries(lastCall.s)) = 1
    /\ InTree(renderers[_renderer[lastCall.s]].canvas)

\* C20 witness: a Rasterized2D createCanvas call has returned on a sketch
\* whose registry holds an earlier default renderer besides the active one.
C20_Witness ==
  /\ lastCall.op = "createCanvas" /\ lastCall.r = P2D
  /\ Len(_elements[lastCall.s]) = 2
  /\ renderers[_renderer[lastCall.s]].kind = WEBGL

\* C17: resizeCanvas(w, h, skipRedraw) on a sketch with a renderer triggers
\* exactly one redraw when skipRedraw is unset and none when it is set, and
\* the redraw sees the new dimensions and the restored context.
C17_OneRedrawAfterRestore ==
  (lastCall.op = "resizeCanvas" /\ _renderer[lastCall.s] # 0)
  => /\ lastCall.redraws = (IF lastCall.noRedraw THEN 0 ELSE 1)
     /\ ~lastCall.noRedraw
          => lastCall.drawn = [width |-> width[lastCall.s],
                               height |-> height[lastCall.s],
                               ctx |-> drawingContext[lastCall.s]]
     /\ lastCall.noRedraw => lastCall.drawn = NotDrawn

\* C17 witness: resizeCanvas(2, 1) has returned after one redraw that saw a
\* restored compositing mode a bare resize would have reset.
C17_Witness ==
  /\ lastCall.op = "resizeCanvas" /\ ~lastCall.noRedraw
  /\ lastCall.redraws = 1
  /\ lastCall.w = 2 /\ lastCall.h = 1
  /\ lastCall.drawn.width = 2 /\ lastCall.drawn.height = 1
  /\ lastCall.drawn.ctx.globalCompositeOperation = "MULTIPLY"

\* C18: when restoring a snapshotted property fails during resizeCanvas
\* because the property is read-only, no error reaches the caller, the
\* property keeps the value the resize gave it, every other snapshotted
\* property is restored, the dimensions are updated and the redraw happens as
\* requested.
C18_ReadOnlyRestoreSkipped ==
  [][\A s \in Sketches :
       (lastCall'.op = "resizeCanvas" /\ lastCall'.s = s
        /\ lastCall'.skipped # {})
       => /\ lastCall'.err = ""
          /\ \A key \in lastCall'.skipped :
               drawingContext'[s][key]
                 = ResizeContext(drawingContext[s], lastCall'.w)[key]
          /\ \A key \in DOMAIN SaveProps(drawingContext[s]) \ lastCall'.skipped :
               drawingContext'[s][key] = drawingContext[s][key]
          /\ width'[s] = lastCall'.w /\ height'[s] = lastCall'.h
          /\ lastCall'.redraws = (IF lastCall'.noRedraw THEN 0 ELSE 1)]_vars

\* C18 witness: resizeCanvas(2, 1) has returned with a redraw after skipping
\* the read-only drawingBufferWidth, with the stroke colour set before the
\* call restored.
C18_Witness ==
  \E s \in Sketches :
    /\ lastCall.op = "resizeCanvas" /\ lastCall.s = s
    /\ "drawingBufferWidth" \in lastCall.skipped
    /\ lastCall.err = "" /\ lastCall.redraws = 1
    /\ lastCall.w = 2 /\ width[s] = 2
    /\ drawingContext[s].drawingBufferWidth = 2
    /\ drawingContext[s].strokeStyle = "#ff0000"
====
